---------------------------- MODULE Spec2Model ----------------------------
(***************************************************************************)
(* A model of spherify's batch engine (src/src/spherify/spherify.py):      *)
(* Handler.__init__, Handler.spherify_all, the two gather strategies, the  *)
(* per-image pipeline in its asynchronous and its blocking form, and the   *)
(* collaborators it drives (the file system, PIL, the shell, the engine    *)
(* process).                                                               *)
(*                                                                         *)
(* Representation.  A path of the input tree is the string a user would    *)
(* type for it; a file name is a record [stem, ext], and a path under the  *)
(* save directory is a sequence of file names.  A string that may hold     *)
(* blanks (a command-line argument, a command line) is the sequence of its *)
(* blank-separated words.                                                  *)
(* An image is a record [t, w, h, data], data being its raw RGBA bytes;    *)
(* Python's None is the record [t |-> "None"].                             *)
(***************************************************************************)
EXTENDS Integers, Sequences, FiniteSets, TLC

\* ------------------------------------------------------------------ bounds

\* Longest list of input paths given on the command line (nargs='+': at
\* least one); the lists of the model name no path twice.
MaxInputs == 3

\* ------------------------------------------------------------ basic values

None == [t |-> "None"]

IMG_MODE == "RGBA"

\* Bytes per pixel of IMG_MODE.
BytesPerPixel == 4

Image(w, h, data) == [t |-> "Image", w |-> w, h |-> h, data |-> data]

isImage(x) == x.t = "Image"

Name(stem, ext) == [stem |-> stem, ext |-> ext]

\* The decoded RGBA rasters of the image files of the modelled file system.
imgA == Image(1, 1, <<10, 11, 12, 13>>)
imgB == Image(1, 1, <<20, 21, 22, 23>>)
imgC == Image(2, 1, <<30, 31, 32, 33, 34, 35, 36, 37>>)
imgD == Image(1, 1, <<40, 41, 42, 43>>)
imgX == Image(1, 1, <<50, 51, 52, 53>>)

\* ------------------------------------------------------------- file system

\* A file: whether open() is permitted, whether PIL identifies its format,
\* and the raster it decodes to.
File(readable, identified, img) ==
    [type |-> "file", readable |-> readable, identified |-> identified, img |-> img,
     entries |-> <<>>]

Dir(entries) ==
    [type |-> "dir", readable |-> TRUE, identified |-> FALSE, img |-> None,
     entries |-> entries]

\* The file system the batches run on.  "gone.png" does not exist; the
\* directory "e" holds one file and one sub-directory.
FileSystem ==
    ("a.png" :> File(TRUE, TRUE, imgA)) @@
    ("b.png" :> File(TRUE, TRUE, imgB)) @@
    ("c.png" :> File(TRUE, TRUE, imgC)) @@
    ("e" :> Dir(<<"e/sub", "e/x.dat">>)) @@
    ("e/sub" :> Dir(<<"e/sub/b.png">>)) @@
    ("e/sub/b.png" :> File(TRUE, TRUE, imgB)) @@
    ("e/x.dat" :> File(TRUE, TRUE, imgX)) @@
    ("d" :> Dir(<<"d/a.png", "d/sub", "d/locked.png", "d/bad.txt">>)) @@
    ("d/a.png" :> File(TRUE, TRUE, imgD)) @@
    ("d/sub" :> Dir(<<"d/sub/c.png">>)) @@
    ("d/sub/c.png" :> File(TRUE, TRUE, imgC)) @@
    ("d/locked.png" :> File(FALSE, TRUE, imgA)) @@
    ("d/bad.txt" :> File(TRUE, FALSE, None))

\* The paths a user may name on the command line.
InputUniverse == {"a.png", "b.png", "c.png", "gone.png", "d", "e"}

exists(path) == path \in DOMAIN FileSystem

\* Path.is_dir(): False for a path that does not exist.
is_dir(path) == exists(path) /\ FileSystem[path].type = "dir"

\* Path.iterdir(): the directory's direct entries, as paths.
iterdir(path) == FileSystem[path].entries

\* Path.name: the last component.
path_name(path) ==
    CASE path \in {"a.png", "d/a.png"} -> Name("a", "png")
      [] path \in {"b.png", "e/sub/b.png"} -> Name("b", "png")
      [] path \in {"c.png", "d/sub/c.png"} -> Name("c", "png")
      [] path = "gone.png" -> Name("gone", "png")
      [] path = "e/x.dat" -> Name("x", "dat")
      [] path = "d/locked.png" -> Name("locked", "png")
      [] path = "d/bad.txt" -> Name("bad", "txt")
      [] path \in {"d/sub", "e/sub"} -> Name("sub", "")
      [] OTHER -> Name(path, "")

\* --------------------------------------------------------- CLI and strings

\* str() of the small integers that occur as image sizes.
IntStr(n) ==
    CASE n = 0 -> "0" [] n = 1 -> "1" [] n = 2 -> "2" [] n = 3 -> "3" [] n = 4 -> "4"
      [] n = 5 -> "5" [] n = 6 -> "6" [] n = 7 -> "7" [] n = 8 -> "8" [] n = 9 -> "9" [] OTHER -> "500"

\* str.lower() on the answers a user may type at the prompt.
lower(s) ==
    CASE s = "Y" -> "y" [] s = "N" -> "n" [] OTHER -> s

\* What a user may type at the confirmation prompt.
Answers == {"y", "Y", "n", "N", ""}

\* distutils.util.strtobool: 1, 0, or ValueError for anything else.
strtobool(val) ==
    LET v == lower(val)
    IN  IF v \in {"y", "yes", "t", "true", "on", "1"} THEN [raised |-> "", value |-> TRUE]
        ELSE IF v \in {"n", "no", "f", "false", "off", "0"} THEN [raised |-> "", value |-> FALSE]
        ELSE [raised |-> "ValueError", value |-> FALSE]

DEFAULT_OUT_FILE_PREFIX == "sph_"

\* The --julia-binary values of the model: two engines on PATH, one not
\* installed, and one installed under a path that holds a blank ("my julia").
JuliaBinaries == {<<"julia">>, <<"julia-echo">>, <<"nojulia">>, <<"my", "julia">>}

\* The programs the operating system can execute.
Executables == {<<"julia">>, <<"julia-echo">>, <<"my", "julia">>}

\* THIS_PATH.with_suffix('.jl')
julia_script == <<"spherify.jl">>

\* The arguments parsed from the command line (cli.get_arg_parser).
CliArgs ==
    [image_path : {p \in UNION {[1..n -> InputUniverse] : n \in 1..MaxInputs} :
                      \A j, k \in DOMAIN p : j # k => p[j] # p[k]},
     save_directory : {None, [t |-> "Path", path |-> <<Name("out", "")>>]},
     no_display : BOOLEAN,
     julia_binary : JuliaBinaries,
     consecutive : BOOLEAN]

\* ------------------------------------------------------------------- state

VARIABLES
    cli_kwargs,  \* the parsed command line handed to Handler(**vars(cli_args))
    hpc,         \* where main / Handler.spherify_all stands
    confirmed,   \* what the user typed at __init__'s prompt (NotAsked: no prompt)
    exc,         \* the first exception raised ("" while none)
    pc,          \* per candidate: where its spherify call stands
    proc,        \* per candidate: its engine subprocess
    ret,         \* per candidate: what its spherify call returned
    stage,       \* per candidate: the pipeline stages it went through
    results,     \* Handler.results
    disk,        \* the files written under the save directory
    shown        \* the images handed to the viewer, in order

vars == <<cli_kwargs, hpc, confirmed, exc, pc, proc, ret, stage, results, disk, shown>>

\* Handler attributes set from cli_kwargs by __init__.
input_paths == cli_kwargs.image_path
save_dir == cli_kwargs.save_directory
out_file_prefix == DEFAULT_OUT_FILE_PREFIX
display == ~cli_kwargs.no_display
julia_binary == cli_kwargs.julia_binary
concurrent == ~cli_kwargs.consecutive
center == "0.0,0.0,0.0"
radius == "1.0"
sampling_density == "1"
snap_w == 500
snap_h == 500

\* ---------------------------------------------------------- pure pipeline

\* path_iter without the `if file.is_dir(): continue` of lines 96-97.
RECURSIVE path_iter_keeps_dirs(_)
path_iter_keeps_dirs(paths) ==
    IF paths = <<>> THEN <<>>
    ELSE LET path == Head(paths)
             files == IF is_dir(path) THEN iterdir(path) ELSE <<path>>
         IN  files \o path_iter_keeps_dirs(Tail(paths))

\* A path_iter that descends into the sub-directories of a directory input.
RECURSIVE path_iter_descends(_)
path_iter_descends(paths) ==
    IF paths = <<>> THEN <<>>
    ELSE LET path == Head(paths)
         IN  (IF is_dir(path) THEN path_iter_descends(iterdir(path)) ELSE <<path>>)
             \o path_iter_descends(Tail(paths))

\* Handler.path_iter: the files method() is called on, in order.  A directory
\* input is replaced by its direct entries; entries that are directories are
\* skipped.
RECURSIVE path_iter(_)
path_iter(paths) ==
    IF paths = <<>> THEN <<>>
    ELSE LET path == Head(paths)
             files == IF is_dir(path) THEN iterdir(path) ELSE <<path>>
         IN  SelectSeq(files, LAMBDA file : ~is_dir(file)) \o path_iter(Tail(paths))

\* The candidates of the batch and their indices.
Candidates == path_iter(input_paths)
Tasks == 1..Len(Candidates)

\* load_image without the `except PermissionError` clause of lines 194-196.
load_image_permission_uncaught(img_path) ==
    IF ~exists(img_path) THEN [raised |-> "FileNotFoundError", value |-> None]
    ELSE IF ~FileSystem[img_path].readable THEN [raised |-> "PermissionError", value |-> None]
    ELSE IF ~FileSystem[img_path].identified THEN [raised |-> "", value |-> None]
    ELSE [raised |-> "", value |-> FileSystem[img_path].img]

\* load_image / load_image_non_async (the two bodies are the same): stat()
\* for the log line is outside the try; PermissionError and
\* UnidentifiedImageError are caught and give None.
load_image(img_path) ==
    IF ~exists(img_path) THEN [raised |-> "FileNotFoundError", value |-> None]
    ELSE IF ~FileSystem[img_path].readable THEN [raised |-> "", value |-> None]
    ELSE IF ~FileSystem[img_path].identified THEN [raised |-> "", value |-> None]
    ELSE [raised |-> "", value |-> FileSystem[img_path].img]

\* Image.tobytes()
tobytes(img) == img.data

\* PIL.Image.frombytes(mode, size, data): ValueError when data is shorter
\* than the raster; bytes past the raster are ignored.
img_from_bytes(mode, size, data) ==
    LET need == size[1] * size[2] * BytesPerPixel
    IN  IF Len(data) < need THEN [raised |-> "ValueError", value |-> None]
        ELSE [raised |-> "", value |-> Image(size[1], size[2], SubSeq(data, 1, need))]

\* Handler.get_julia_command_args
get_julia_command_args(img) ==
    << julia_binary,
       julia_script,
       <<IntStr(img.w) \o "," \o IntStr(img.h)>>,
       <<center>>,
       <<radius>>,
       <<sampling_density>>,
       <<IntStr(snap_w) \o "," \o IntStr(snap_h)>> >>

\* ' '.join(args): the command line, as its blank-separated words.
RECURSIVE join(_)
join(args) == IF args = <<>> THEN <<>> ELSE Head(args) \o join(Tail(args))

\* The shell's word splitting of an unquoted command line: one argument per word.
sh_split(cmd) == [k \in 1..Len(cmd) |-> <<cmd[k]>>]

\* _process_julia_output with the commented-out line 177 in place of line
\* 176: the image is built with the requested snapshot size.
process_julia_output_snapshot(stdout, old_size) ==
    img_from_bytes(IMG_MODE, <<snap_w, snap_h>>, stdout)

\* Handler._process_julia_output
process_julia_output(stdout, old_size) == img_from_bytes(IMG_MODE, old_size, stdout)

\* Handler.get_save_path
get_save_path(input_path) ==
    save_dir.path \o <<Name(out_file_prefix \o path_name(input_path).stem,
                            path_name(input_path).ext)>>

\* The file extensions PIL can pick an output format from.
SaveExtensions == {"png", "jpg"}

\* A save that swallows its failure: nothing is written and nothing raised.
image_save_swallows(image, target_path) ==
    IF target_path[Len(target_path)].ext \in SaveExtensions
    THEN [raised |-> "", write |-> (target_path :> image)]
    ELSE [raised |-> "", write |-> <<>>]

\* Image.save(target_path): ValueError for an unknown extension.
image_save(image, target_path) ==
    IF target_path[Len(target_path)].ext \in SaveExtensions
    THEN [raised |-> "", write |-> (target_path :> image)]
    ELSE [raised |-> "ValueError", write |-> <<>>]

\* A write that leaves a file that is already there as it is.
write_file_keeps_existing(files, write) == files @@ write

\* The effect of a successful Image.save on the save directory: the file is
\* created, or overwritten when the path is already taken.
write_file(files, write) == write @@ files

\* ---------------------------------------------------------- engine process

NoProc == [state |-> "none", argv |-> <<>>, stdin |-> <<>>,
           stdout |-> <<>>, stderr |-> <<>>, returncode |-> 0]

\* The deterministic stub engines: an error on stderr (and bytes on stdout,
\* and a non-zero exit) for a malformed command line and, unless the engine
\* is "julia-echo", for b.png's raster; an echo of stdin otherwise (with a
\* non-zero exit for c.png's raster).  "julia-echo" is the identity on every
\* raster.
JuliaStub(argv, stdin) ==
    IF Len(argv) # 7 \/ argv[2] # julia_script
    THEN [stdout |-> <<>>, stderr |-> <<69, 50>>, returncode |-> 1]
    ELSE IF stdin = tobytes(imgB) /\ argv[1] # <<"julia-echo">>
    THEN [stdout |-> <<9, 9, 9, 9>>, stderr |-> <<69, 49>>, returncode |-> 1]
    ELSE [stdout |-> stdin, stderr |-> <<>>,
          returncode |-> IF stdin = tobytes(imgC) THEN 3 ELSE 0]

\* What the spawned process writes and returns once it has read stdin: the
\* shell's "not found" (exit 127) when argv[1] is no program (only a shell
\* gets that far), the engine's output otherwise.
ProcessOutput(argv, stdin) ==
    IF argv[1] \notin Executables
    THEN [stdout |-> <<>>, stderr |-> <<115, 104>>, returncode |-> 127]
    ELSE JuliaStub(argv, stdin)

\* -------------------------------------------------------------------- Init

NotAsked == "<not asked>"

Init ==
    /\ cli_kwargs \in CliArgs
    /\ hpc = "main"
    /\ confirmed = NotAsked
    /\ exc = ""
    /\ pc = [i \in 1..Len(path_iter(cli_kwargs.image_path)) |-> "pending"]
    /\ proc = [i \in 1..Len(path_iter(cli_kwargs.image_path)) |-> NoProc]
    /\ ret = [i \in 1..Len(path_iter(cli_kwargs.image_path)) |-> None]
    /\ stage = [i \in 1..Len(path_iter(cli_kwargs.image_path)) |-> <<>>]
    /\ results = <<>>
    /\ disk = <<>>
    /\ shown = <<>>

\* ----------------------------------------------------- main and __init__

\* main's Handler(**vars(cli_args)): __init__ asks for confirmation when the
\* results would be neither displayed nor saved; AbortExecution is caught by
\* main ("Aborted."), strtobool's ValueError is not.
Handler_init ==
    /\ hpc = "main"
    /\ UNCHANGED <<cli_kwargs, pc, proc, ret, stage, results, disk, shown>>
    /\ IF ~display /\ save_dir = None
       THEN \E answer \in Answers :
              /\ confirmed' = answer
              /\ LET b == strtobool(lower(answer))
                 IN  IF b.raised # ""
                     THEN hpc' = "init_raised" /\ exc' = b.raised
                     ELSE IF ~b.value
                     THEN hpc' = "aborted" /\ exc' = "AbortExecution"
                     ELSE hpc' = "constructed" /\ exc' = exc
       ELSE /\ hpc' = "constructed"
            /\ UNCHANGED <<confirmed, exc>>

\* main's handler.spherify_all(): entering the gather step.
spherify_all_begin ==
    /\ hpc = "constructed"
    /\ hpc' = "gather"
    /\ UNCHANGED <<cli_kwargs, confirmed, exc, pc, proc, ret, stage, results, disk, shown>>

\* ------------------------------------------------ the per-image pipeline

\* In the actions below a local of the code (l, t) is bound by \E over a
\* one-element set: the value is computed once and named, as the local is.

\* The image a candidate was loaded as.
img_of(i) == load_image(Candidates[i]).value

\* spherify_tail without the `if stderr:` test of lines 114-116: the output
\* is reconstructed whatever stderr holds.
spherify_tail_ignores_stderr(i, p) ==
    LET r == process_julia_output(p.stdout, <<img_of(i).w, img_of(i).h>>)
    IN  IF r.raised # ""
        THEN [raised |-> r.raised, value |-> None, write |-> <<>>, stages |-> <<>>]
        ELSE IF save_dir = None
        THEN [raised |-> "", value |-> r.value, write |-> <<>>,
              stages |-> <<"Reconstructed", "Done">>]
        ELSE LET s == image_save(r.value, get_save_path(Candidates[i]))
             IN  IF s.raised # ""
                 THEN [raised |-> s.raised, value |-> None, write |-> <<>>,
                       stages |-> <<"Reconstructed">>]
                 ELSE [raised |-> "", value |-> r.value, write |-> s.write,
                       stages |-> <<"Reconstructed", "Saved", "Done">>]

\* spherify_tail with the `if stderr:` test moved behind the save: the output
\* is reconstructed and saved first, and None is returned for a run that
\* wrote to stderr.
spherify_tail_late_stderr_test(i, p) ==
    LET r == process_julia_output(p.stdout, <<img_of(i).w, img_of(i).h>>)
        s == IF r.raised = "" /\ save_dir # None
             THEN image_save(r.value, get_save_path(Candidates[i]))
             ELSE [raised |-> "", write |-> <<>>]
    IN  IF r.raised # ""
        THEN [raised |-> r.raised, value |-> None, write |-> <<>>, stages |-> <<>>]
        ELSE IF s.raised # ""
        THEN [raised |-> s.raised, value |-> None, write |-> <<>>,
              stages |-> <<"Reconstructed">>]
        ELSE [raised |-> "",
              value |-> IF p.stderr # <<>> THEN None ELSE r.value,
              write |-> s.write,
              stages |-> <<"Reconstructed">>
                         \o (IF save_dir # None THEN <<"Saved">> ELSE <<>>)
                         \o (IF p.stderr # <<>> THEN <<"Skipped">> ELSE <<"Done">>)]

\* spherify_tail with a save that is left out when the target file is
\* already there: the image is returned, no file is written.
spherify_tail_skips_existing(i, p) ==
    IF p.stderr # <<>>
    THEN [raised |-> "", value |-> None, write |-> <<>>, stages |-> <<"Skipped">>]
    ELSE LET r == process_julia_output(p.stdout, <<img_of(i).w, img_of(i).h>>)
         IN  IF r.raised # ""
             THEN [raised |-> r.raised, value |-> None, write |-> <<>>, stages |-> <<>>]
             ELSE IF save_dir = None \/ get_save_path(Candidates[i]) \in DOMAIN disk
             THEN [raised |-> "", value |-> r.value, write |-> <<>>,
                   stages |-> <<"Reconstructed", "Done">>]
             ELSE LET s == image_save(r.value, get_save_path(Candidates[i]))
                  IN  IF s.raised # ""
                      THEN [raised |-> s.raised, value |-> None, write |-> <<>>,
                            stages |-> <<"Reconstructed">>]
                      ELSE [raised |-> "", value |-> r.value, write |-> s.write,
                            stages |-> <<"Reconstructed", "Saved", "Done">>]

\* Lines 114-120 and 128-134, the same in spherify and spherify_non_async:
\* what happens once the subprocess's output is in hand.
spherify_tail(i, p) ==
    IF p.stderr # <<>>
    THEN [raised |-> "", value |-> None, write |-> <<>>, stages |-> <<"Skipped">>]
    ELSE LET r == process_julia_output(p.stdout, <<img_of(i).w, img_of(i).h>>)
         IN  IF r.raised # ""
             THEN [raised |-> r.raised, value |-> None, write |-> <<>>, stages |-> <<>>]
             ELSE IF save_dir = None
             THEN [raised |-> "", value |-> r.value, write |-> <<>>,
                   stages |-> <<"Reconstructed", "Done">>]
             ELSE LET s == image_save(r.value, get_save_path(Candidates[i]))
                  IN  IF s.raised # ""
                      THEN [raised |-> s.raised, value |-> None, write |-> <<>>,
                            stages |-> <<"Reconstructed">>]
                      ELSE [raised |-> "", value |-> r.value, write |-> s.write,
                            stages |-> <<"Reconstructed", "Saved", "Done">>]

\* A gather step that starts the next call as soon as the previous one has
\* started, not returned.
non_async_turn_early(i) == \A j \in 1..(i - 1) : pc[j] # "pending"

\* The generator of path_iter hands _gather_results_non_async one call at a
\* time: candidate i is called once every earlier call has returned.
non_async_turn(i) == \A j \in 1..(i - 1) : pc[j] = "done"

\* spherify_non_async up to the point where run() waits for the subprocess:
\* load, build the command, spawn it with the image on stdin.
spherify_non_async_call(i) ==
    /\ hpc = "gather" /\ ~concurrent
    /\ pc[i] = "pending" /\ non_async_turn(i)
    /\ UNCHANGED <<cli_kwargs, confirmed, results, disk, shown>>
    /\ \E l \in {load_image(Candidates[i])} :
           IF l.raised # ""
           THEN /\ pc' = [pc EXCEPT ![i] = "raised"]
                /\ exc' = l.raised /\ hpc' = "raised"
                /\ UNCHANGED <<proc, ret, stage>>
           ELSE IF ~isImage(l.value)
           THEN /\ pc' = [pc EXCEPT ![i] = "done"]
                /\ ret' = [ret EXCEPT ![i] = None]
                /\ stage' = [stage EXCEPT ![i] = <<"Skipped">>]
                /\ UNCHANGED <<hpc, exc, proc>>
           ELSE LET args == get_julia_command_args(l.value)
                IN  IF args[1] \notin Executables
                    THEN /\ pc' = [pc EXCEPT ![i] = "raised"]
                         /\ exc' = "FileNotFoundError" /\ hpc' = "raised"
                         /\ stage' = [stage EXCEPT ![i] = <<"Loaded">>]
                         /\ UNCHANGED <<proc, ret>>
                    ELSE /\ pc' = [pc EXCEPT ![i] = "communicating"]
                         /\ proc' = [proc EXCEPT ![i] =
                                [NoProc EXCEPT !.state = "running", !.argv = args,
                                               !.stdin = tobytes(l.value)]]
                         /\ stage' = [stage EXCEPT ![i] = <<"Loaded", "EngineInvoked">>]
                         /\ UNCHANGED <<hpc, exc, ret>>

\* The subprocess of candidate i has read its stdin to the end, written its
\* output and exited: what run() and communicate() return with.
exited(i) ==
    LET o == ProcessOutput(proc[i].argv, proc[i].stdin)
    IN  [proc[i] EXCEPT !.state = "exited", !.stdout = o.stdout,
                        !.stderr = o.stderr, !.returncode = o.returncode]

\* spherify_non_async with run(..., check=True): a non-zero exit status
\* raises CalledProcessError.
spherify_non_async_return_check(i) ==
    /\ hpc = "gather" /\ ~concurrent
    /\ pc[i] = "communicating" /\ proc[i].state = "running"
    /\ UNCHANGED <<cli_kwargs, confirmed, results, shown>>
    /\ proc' = [proc EXCEPT ![i] = exited(i)]
    /\ \E t \in {spherify_tail(i, exited(i))} :
           IF exited(i).returncode # 0
           THEN /\ pc' = [pc EXCEPT ![i] = "raised"]
                /\ exc' = "CalledProcessError" /\ hpc' = "raised"
                /\ UNCHANGED <<ret, stage, disk>>
           ELSE /\ stage' = [stage EXCEPT ![i] = @ \o t.stages]
                /\ disk' = write_file(disk, t.write)
                /\ IF t.raised # ""
                   THEN /\ pc' = [pc EXCEPT ![i] = "raised"]
                        /\ exc' = t.raised /\ hpc' = "raised"
                        /\ ret' = ret
                   ELSE /\ pc' = [pc EXCEPT ![i] = "done"]
                        /\ ret' = [ret EXCEPT ![i] = t.value]
                        /\ UNCHANGED <<hpc, exc>>

\* spherify_non_async from run()'s return (the subprocess has exited) to its
\* own return.
spherify_non_async_return(i) ==
    /\ hpc = "gather" /\ ~concurrent
    /\ pc[i] = "communicating" /\ proc[i].state = "running"
    /\ UNCHANGED <<cli_kwargs, confirmed, results, shown>>
    /\ proc' = [proc EXCEPT ![i] = exited(i)]
    /\ \E t \in {spherify_tail(i, exited(i))} :
           /\ stage' = [stage EXCEPT ![i] = @ \o t.stages]
           /\ disk' = write_file(disk, t.write)
           /\ IF t.raised # ""
              THEN /\ pc' = [pc EXCEPT ![i] = "raised"]
                   /\ exc' = t.raised /\ hpc' = "raised"
                   /\ ret' = ret
              ELSE /\ pc' = [pc EXCEPT ![i] = "done"]
                   /\ ret' = [ret EXCEPT ![i] = t.value]
                   /\ UNCHANGED <<hpc, exc>>

\* _gather_results_non_async: the list comprehension is exhausted and
\* self.results is assigned.
gather_results_non_async ==
    /\ hpc = "gather" /\ ~concurrent
    /\ \A i \in Tasks : pc[i] = "done"
    /\ results' = [i \in Tasks |-> ret[i]]
    /\ hpc' = "gathered"
    /\ UNCHANGED <<cli_kwargs, confirmed, exc, pc, proc, ret, stage, disk, shown>>

\* ------------------------------------------------------- concurrent mode

\* asyncio.gather wraps every coroutine of path_iter in a task; the event
\* loop runs the tasks' first steps in creation order before it resumes any
\* of them.
first_step_turn(i) == \A j \in 1..(i - 1) : pc[j] # "pending"

all_started == \A j \in Tasks : pc[j] # "pending"

\* A loop that resumes a task only after every earlier task has returned.
may_resume_in_order(i) ==
    /\ hpc = "gather" /\ concurrent /\ all_started
    /\ \A j \in 1..(i - 1) : pc[j] \in {"done", "raised"}

\* A task may be resumed: the loop is running the batch and every task has
\* had its first step.
may_resume(i) == hpc = "gather" /\ concurrent /\ all_started

\* An exception leaves a task: it is what gather will raise if it is the first.
task_raises(i, name) ==
    /\ pc' = [pc EXCEPT ![i] = "raised"]
    /\ exc' = IF exc = "" THEN name ELSE exc

\* spherify_call with the subprocess spawned from the argument list, as
\* run() of the blocking path does, and not through a shell: a program that
\* is not installed raises FileNotFoundError in the task.
spherify_call_exec(i) ==
    /\ hpc = "gather" /\ concurrent
    /\ pc[i] = "pending" /\ first_step_turn(i)
    /\ UNCHANGED <<cli_kwargs, hpc, confirmed, results, disk, shown>>
    /\ \E l \in {load_image(Candidates[i])} :
           IF l.raised # ""
           THEN /\ task_raises(i, l.raised)
                /\ UNCHANGED <<proc, ret, stage>>
           ELSE IF ~isImage(l.value)
           THEN /\ pc' = [pc EXCEPT ![i] = "done"]
                /\ ret' = [ret EXCEPT ![i] = None]
                /\ stage' = [stage EXCEPT ![i] = <<"Skipped">>]
                /\ UNCHANGED <<exc, proc>>
           ELSE LET args == get_julia_command_args(l.value)
                IN  IF args[1] \notin Executables
                    THEN /\ task_raises(i, "FileNotFoundError")
                         /\ stage' = [stage EXCEPT ![i] = <<"Loaded">>]
                         /\ UNCHANGED <<proc, ret>>
                    ELSE /\ pc' = [pc EXCEPT ![i] = "spawning"]
                         /\ proc' = [proc EXCEPT ![i] =
                                [NoProc EXCEPT !.state = "running", !.argv = args]]
                         /\ stage' = [stage EXCEPT ![i] = <<"Loaded", "EngineInvoked">>]
                         /\ UNCHANGED <<exc, ret>>

\* A spherify whose load_image suspends (as it would with an await on the
\* file read in it): the task yields to the loop with the image loaded and
\* builds and spawns the command when it is run again.
spherify_call_suspends_in_load(i) ==
    /\ hpc = "gather" /\ concurrent
    /\ pc[i] = "pending" /\ first_step_turn(i)
    /\ UNCHANGED <<cli_kwargs, hpc, confirmed, results, disk, shown>>
    /\ \E l \in {load_image(Candidates[i])} :
           IF l.raised # ""
           THEN /\ task_raises(i, l.raised)
                /\ UNCHANGED <<proc, ret, stage>>
           ELSE IF ~isImage(l.value)
           THEN /\ pc' = [pc EXCEPT ![i] = "done"]
                /\ ret' = [ret EXCEPT ![i] = None]
                /\ stage' = [stage EXCEPT ![i] = <<"Skipped">>]
                /\ UNCHANGED <<exc, proc>>
           ELSE IF stage[i] = <<>>
           THEN /\ stage' = [stage EXCEPT ![i] = <<"Loaded">>]
                /\ UNCHANGED <<pc, exc, proc, ret>>
           ELSE LET cmd == join(get_julia_command_args(l.value))
                IN  /\ pc' = [pc EXCEPT ![i] = "spawning"]
                    /\ proc' = [proc EXCEPT ![i] =
                           [NoProc EXCEPT !.state = "running", !.argv = sh_split(cmd)]]
                    /\ stage' = [stage EXCEPT ![i] = <<"Loaded", "EngineInvoked">>]
                    /\ UNCHANGED <<exc, ret>>

\* spherify up to its first suspension: load_image has no await in it, then
\* run_julia builds the command line and awaits create_subprocess_shell.
spherify_call(i) ==
    /\ hpc = "gather" /\ concurrent
    /\ pc[i] = "pending" /\ first_step_turn(i)
    /\ UNCHANGED <<cli_kwargs, hpc, confirmed, results, disk, shown>>
    /\ \E l \in {load_image(Candidates[i])} :
           IF l.raised # ""
           THEN /\ task_raises(i, l.raised)
                /\ UNCHANGED <<proc, ret, stage>>
           ELSE IF ~isImage(l.value)
           THEN /\ pc' = [pc EXCEPT ![i] = "done"]
                /\ ret' = [ret EXCEPT ![i] = None]
                /\ stage' = [stage EXCEPT ![i] = <<"Skipped">>]
                /\ UNCHANGED <<exc, proc>>
           ELSE LET cmd == join(get_julia_command_args(l.value))
                IN  /\ pc' = [pc EXCEPT ![i] = "spawning"]
                    /\ proc' = [proc EXCEPT ![i] =
                           [NoProc EXCEPT !.state = "running", !.argv = sh_split(cmd)]]
                    /\ stage' = [stage EXCEPT ![i] = <<"Loaded", "EngineInvoked">>]
                    /\ UNCHANGED <<exc, ret>>

\* run_julia resumed after the spawn: proc.communicate(input=img.tobytes())
\* writes stdin and awaits the process.
run_julia_communicate(i) ==
    /\ may_resume(i)
    /\ pc[i] = "spawning"
    /\ pc' = [pc EXCEPT ![i] = "communicating"]
    /\ proc' = [proc EXCEPT ![i].stdin = tobytes(img_of(i))]
    /\ UNCHANGED <<cli_kwargs, hpc, confirmed, exc, ret, stage, results, disk, shown>>

\* A spherify that tries again when the engine wrote to stderr: the target
\* goes back to the start of its pipeline.
spherify_return_retries(i) ==
    /\ may_resume(i)
    /\ pc[i] = "communicating" /\ proc[i].state = "running"
    /\ UNCHANGED <<cli_kwargs, hpc, confirmed, results, shown>>
    /\ \E t \in {spherify_tail(i, exited(i))} :
           IF exited(i).stderr # <<>>
           THEN /\ pc' = [pc EXCEPT ![i] = "pending"]
                /\ proc' = [proc EXCEPT ![i] = NoProc]
                /\ stage' = [stage EXCEPT ![i] = <<>>]
                /\ UNCHANGED <<exc, ret, disk>>
           ELSE /\ proc' = [proc EXCEPT ![i] = exited(i)]
                /\ stage' = [stage EXCEPT ![i] = @ \o t.stages]
                /\ disk' = write_file(disk, t.write)
                /\ IF t.raised # ""
                   THEN task_raises(i, t.raised) /\ ret' = ret
                   ELSE /\ pc' = [pc EXCEPT ![i] = "done"]
                        /\ ret' = [ret EXCEPT ![i] = t.value]
                        /\ exc' = exc

\* spherify resumed by communicate()'s return (the subprocess has exited),
\* to its own return: the await of save_image does not suspend.
spherify_return(i) ==
    /\ may_resume(i)
    /\ pc[i] = "communicating" /\ proc[i].state = "running"
    /\ UNCHANGED <<cli_kwargs, hpc, confirmed, results, shown>>
    /\ proc' = [proc EXCEPT ![i] = exited(i)]
    /\ \E t \in {spherify_tail(i, exited(i))} :
           /\ stage' = [stage EXCEPT ![i] = @ \o t.stages]
           /\ disk' = write_file(disk, t.write)
           /\ IF t.raised # ""
              THEN task_raises(i, t.raised) /\ ret' = ret
              ELSE /\ pc' = [pc EXCEPT ![i] = "done"]
                   /\ ret' = [ret EXCEPT ![i] = t.value]
                   /\ exc' = exc

\* gather's future is complete: every task has returned.
gather_complete == \A i \in Tasks : pc[i] = "done"

\* A gather step that hands the values back last task first.
gather_results_reversed ==
    /\ hpc = "gather" /\ concurrent
    /\ gather_complete
    /\ results' = [i \in Tasks |-> ret[Len(Candidates) + 1 - i]]
    /\ hpc' = "gathered"
    /\ UNCHANGED <<cli_kwargs, confirmed, exc, pc, proc, ret, stage, disk, shown>>

\* _gather_results: the await of asyncio.gather returns the tasks' values in
\* the order of the coroutines, and self.results is assigned.
gather_results ==
    /\ hpc = "gather" /\ concurrent
    /\ gather_complete
    /\ results' = [i \in Tasks |-> ret[i]]
    /\ hpc' = "gathered"
    /\ UNCHANGED <<cli_kwargs, confirmed, exc, pc, proc, ret, stage, disk, shown>>

\* A gather step that, when a task raised, still assigns self.results what
\* the tasks have returned so far (as a gather with return_exceptions=True
\* followed by a re-raise would).
gather_results_raise_publishes ==
    /\ hpc = "gather" /\ concurrent
    /\ all_started
    /\ \E i \in Tasks : pc[i] = "raised"
    /\ hpc' = "raised"
    /\ results' = [i \in Tasks |-> ret[i]]
    /\ pc' = [i \in Tasks |-> IF pc[i] \in {"spawning", "communicating"}
                               THEN "cancelled" ELSE pc[i]]
    /\ proc' = [i \in Tasks |-> IF proc[i].state = "running"
                                 THEN [proc[i] EXCEPT !.state = "killed"] ELSE proc[i]]
    /\ UNCHANGED <<cli_kwargs, confirmed, exc, ret, stage, disk, shown>>

\* A task raised: gather (return_exceptions=False) raises its exception in
\* _gather_results, and asyncio.run cancels the tasks still running (the
\* subprocess transports are closed, which kills their processes).
gather_results_raise ==
    /\ hpc = "gather" /\ concurrent
    /\ all_started
    /\ \E i \in Tasks : pc[i] = "raised"
    /\ hpc' = "raised"
    /\ pc' = [i \in Tasks |-> IF pc[i] \in {"spawning", "communicating"}
                              THEN "cancelled" ELSE pc[i]]
    /\ proc' = [i \in Tasks |-> IF proc[i].state = "running"
                                THEN [proc[i] EXCEPT !.state = "killed"] ELSE proc[i]]
    /\ UNCHANGED <<cli_kwargs, confirmed, exc, ret, stage, results, disk, shown>>

\* A display loop that does not test self.display.
spherify_all_display_unconditional ==
    /\ hpc = "gathered"
    /\ shown' = SelectSeq(results, isImage)
    /\ hpc' = "returned"
    /\ UNCHANGED <<cli_kwargs, confirmed, exc, pc, proc, ret, stage, results, disk>>

\* The end of spherify_all: with display on, every Image of self.results is
\* shown, in order.
spherify_all_display ==
    /\ hpc = "gathered"
    /\ shown' = IF display THEN SelectSeq(results, isImage) ELSE shown
    /\ hpc' = "returned"
    /\ UNCHANGED <<cli_kwargs, confirmed, exc, pc, proc, ret, stage, results, disk>>

\* -------------------------------------------------------------------- Next

Next ==
    \/ Handler_init
    \/ spherify_all_begin
    \/ \E i \in Tasks : spherify_non_async_call(i)
    \/ \E i \in Tasks : spherify_non_async_return(i)
    \/ gather_results_non_async
    \/ \E i \in Tasks : spherify_call(i)
    \/ \E i \in Tasks : run_julia_communicate(i)
    \/ \E i \in Tasks : spherify_return(i)
    \/ gather_results
    \/ gather_results_raise
    \/ spherify_all_display

Spec == Init /\ [][Next]_vars

\* The program keeps running: main goes on to its next statement, the event
\* loop resumes a task that is ready, and an engine process that was given
\* its input exits.
FairSpec ==
    /\ Spec
    /\ WF_vars(Handler_init)
    /\ WF_vars(spherify_all_begin)
    /\ WF_vars(\E i \in Tasks : spherify_non_async_call(i))
    /\ WF_vars(\E i \in Tasks : spherify_non_async_return(i))
    /\ WF_vars(gather_results_non_async)
    /\ WF_vars(\E i \in Tasks : spherify_call(i))
    /\ WF_vars(\E i \in Tasks : run_julia_communicate(i))
    /\ WF_vars(\E i \in Tasks : spherify_return(i))
    /\ WF_vars(gather_results)
    /\ WF_vars(gather_results_raise)
    /\ WF_vars(spherify_all_display)

\* ------------------------------------------------------------------ claims

\* spherify_all has returned normally from its gather step.
Gathered == hpc \in {"gathered", "returned"}

\* The number of file candidates of the batch, counted on the file system:
\* one per non-directory input path, and for a directory input one per
\* direct entry that is not a directory.
RECURSIVE FileCandidateCount(_)
FileCandidateCount(paths) ==
    IF paths = <<>> THEN 0
    ELSE (IF is_dir(Head(paths))
          THEN Cardinality({k \in DOMAIN FileSystem[Head(paths)].entries :
                               ~is_dir(FileSystem[Head(paths)].entries[k])})
          ELSE 1)
         + FileCandidateCount(Tail(paths))

\* C1: in both modes, once the gather step of spherify_all has finished, the
\* results list holds exactly one entry, an image or None, per resolved file
\* candidate (non-directory inputs plus the non-directory direct entries of
\* directory inputs), however many of the targets failed.
C1_OneRecordPerCandidate ==
    Gathered =>
        /\ Len(results) = FileCandidateCount(input_paths)
        /\ \A k \in DOMAIN results : results[k] = None \/ isImage(results[k])

\* C1's case: a finished batch with a directory input, some targets failed
\* and some present.
C1_Witness ==
    /\ hpc = "returned"
    /\ \E k \in DOMAIN input_paths : is_dir(input_paths[k])
    /\ Cardinality({k \in DOMAIN results : results[k] = None}) >= 2
    /\ \E k \in DOMAIN results : isImage(results[k])

\* The file of candidate i exists but cannot be loaded: open() is refused
\* (PermissionError) or PIL does not identify its format.
LoadFails(i) ==
    /\ exists(Candidates[i])
    /\ ~FileSystem[Candidates[i]].readable \/ ~FileSystem[Candidates[i]].identified

\* The engine run of candidate i is over and wrote nothing to stderr.
CleanRun(i) == proc[i].state = "exited" /\ proc[i].stderr = <<>>

\* The file candidate i is saved as, when a save directory is set.
SavedAs(i) ==
    save_dir.path \o <<Name(DEFAULT_OUT_FILE_PREFIX \o path_name(Candidates[i]).stem,
                            path_name(Candidates[i]).ext)>>

\* C2: in both modes a target whose load fails (no read permission, format
\* not identified) never reaches the engine, never raises and gives exactly
\* one absent record; a sibling whose engine run was clean is still
\* reconstructed, saved when a save directory is set, and recorded present.
C2_LoadFailureIsAbsentRecord ==
    \A i \in Tasks :
        LoadFails(i) =>
            /\ proc[i].state = "none"
            /\ pc[i] \in {"pending", "done"}
            /\ pc[i] = "done" => ret[i] = None /\ stage[i] = <<"Skipped">>
            /\ Gathered =>
                 /\ Len(results) = Len(Candidates)
                 /\ results[i] = None
                 /\ \A j \in Tasks :
                        CleanRun(j) =>
                            /\ isImage(results[j])
                            /\ results[j].data = proc[j].stdout
                            /\ save_dir # None =>
                                 /\ SavedAs(j) \in DOMAIN disk
                                 /\ "Saved" \in {stage[j][k] : k \in DOMAIN stage[j]}

\* C2's case: a batch that returned, with both kinds of load failure, and a
\* sibling that was saved and recorded present after them.
C2_Witness ==
    /\ hpc = "returned" /\ save_dir # None
    /\ \E i, j \in Tasks :
          /\ LoadFails(i) /\ ~FileSystem[Candidates[i]].readable
          /\ LoadFails(j) /\ FileSystem[Candidates[j]].readable
          /\ results[i] = None /\ results[j] = None
    /\ \E i, j \in Tasks :
          /\ i < j /\ LoadFails(i)
          /\ isImage(results[j]) /\ SavedAs(j) \in DOMAIN disk

\* C3: in both modes a target whose engine wrote to stderr is recorded absent
\* and nothing is reconstructed or saved for it, whatever stdout holds and
\* whatever the exit code is; it never raises, and siblings with a clean run
\* are recorded present: the batch a.png, b.png, c.png (engine installed)
\* does not raise and ends with a.png and c.png present and b.png absent.
C3_StderrIsAbsentRecord ==
    /\ \A i \in Tasks :
          (proc[i].state = "exited" /\ proc[i].stderr # <<>>) =>
              /\ pc[i] = "done" /\ ret[i] = None
              /\ stage[i] = <<"Loaded", "EngineInvoked", "Skipped">>
              /\ (\A j \in Tasks : path_name(Candidates[j]) = path_name(Candidates[i])
                                      => ~CleanRun(j))
                   => (save_dir # None => SavedAs(i) \notin DOMAIN disk)
              /\ Gathered =>
                   /\ results[i] = None
                   /\ \A j \in Tasks : CleanRun(j) => isImage(results[j])
    /\ (input_paths = <<"a.png", "b.png", "c.png">> /\ julia_binary = <<"julia">>) =>
          /\ hpc # "raised"
          /\ \A i \in Tasks : pc[i] # "raised"
          /\ Gathered => results = <<imgA, None, imgC>>

\* C3's case: the batch a.png, b.png, c.png has returned; b.png's engine run
\* wrote to stderr and to stdout and exited non-zero.
C3_Witness ==
    /\ input_paths = <<"a.png", "b.png", "c.png">>
    /\ hpc = "returned" /\ save_dir # None
    /\ proc[2].stderr # <<>> /\ proc[2].stdout # <<>> /\ proc[2].returncode # 0
    /\ results = <<imgA, None, imgC>>

\* What spherify_non_async returns or raises for candidate i: the blocking
\* pipeline as one function of the file system and the configuration.
non_async_outcome(i) ==
    LET l == load_image(Candidates[i])
    IN  IF l.raised # "" THEN [raised |-> l.raised, value |-> None]
        ELSE IF ~isImage(l.value) THEN [raised |-> "", value |-> None]
        ELSE LET args == get_julia_command_args(l.value)
             IN  IF args[1] \notin Executables
                 THEN [raised |-> "FileNotFoundError", value |-> None]
                 ELSE LET o == ProcessOutput(args, tobytes(l.value))
                          t == spherify_tail(i, [NoProc EXCEPT !.state = "exited",
                                                               !.stdout = o.stdout,
                                                               !.stderr = o.stderr])
                      IN  [raised |-> t.raised, value |-> t.value]

\* Handler.results after a run of the batch in sequential mode: still empty
\* when a call raised.
sequential_results ==
    IF \E i \in Tasks : non_async_outcome(i).raised # "" THEN <<>>
    ELSE [i \in Tasks |-> non_async_outcome(i).value]

\* The successful outputs of a results list: which targets are present, and
\* with which image.
SuccessfulOutputs(rs) == {<<k, rs[k]>> : k \in {j \in DOMAIN rs : isImage(rs[j])}}

\* spherify_all is over: it returned or an exception left it.
BatchOver == hpc \in {"returned", "raised"}

\* C4: for the same inputs and the deterministic stub engine, a batch ends
\* with the successful outputs the sequential mode gives, in sequential mode
\* and in concurrent mode under every interleaving: the same targets present
\* with the same bytes, the same targets absent.
C4_ModesAgree ==
    BatchOver => SuccessfulOutputs(results) = SuccessfulOutputs(sequential_results)

\* The part of C4 the code keeps: the two modes agree whenever no argument of
\* the command line holds a blank.
C4_ModesAgreeWithoutBlanks ==
    (\A k \in DOMAIN get_julia_command_args(imgA) :
         Len(get_julia_command_args(imgA)[k]) = 1)
        => C4_ModesAgree

\* The sequential mode alone ends as sequential_results says.
C4_SequentialReference ==
    (~concurrent /\ BatchOver) => results = sequential_results

\* Candidate i is between the start of its load and the end of its save.
InPipeline(i) == pc[i] \in {"spawning", "communicating"}

\* C5: in sequential mode the targets run one after another in input order:
\* at most one is in its pipeline at any moment, and before target j is
\* loaded every earlier target has returned and its engine process, if it
\* had one, has exited with its output collected.
C5_SequentialOneAtATime ==
    ~concurrent =>
        /\ Cardinality({i \in Tasks : InPipeline(i)}) <= 1
        /\ Cardinality({i \in Tasks : proc[i].state = "running"}) <= 1
        /\ \A i, j \in Tasks :
              (i < j /\ pc[j] # "pending") =>
                  /\ pc[i] = "done"
                  /\ proc[i].state \in {"none", "exited"}
                  /\ proc[i].state = "exited" => proc[i].stdin = tobytes(img_of(i))

\* C5's case: sequential mode, the third target's engine is running after
\* the engines of the first two have exited.
C5_Witness ==
    /\ ~concurrent /\ Len(Candidates) >= 3
    /\ proc[1].state = "exited" /\ proc[2].state = "exited"
    /\ proc[3].state = "running" /\ pc[3] = "communicating"

\* The engine invocation of candidate i is in flight.
InFlight(i) == proc[i].state = "running"

\* C6: in concurrent mode every task is launched before any is resumed, the
\* engine invocation of a task never waits for that of another task (a task
\* in flight can always take its next step, whatever the others are doing),
\* and self.results is assigned only once every task has returned.
C6_ConcurrentIndependent ==
    concurrent =>
        /\ (\E j \in Tasks : pc[j] = "pending") =>
               \A i \in Tasks : pc[i] \in {"pending", "spawning", "done", "raised"}
        /\ \A i \in Tasks :
              (hpc = "gather" /\ all_started) =>
                  /\ pc[i] = "spawning" => ENABLED run_julia_communicate(i)
                  /\ pc[i] = "communicating" => ENABLED spherify_return(i)
        /\ \A i \in Tasks : InPipeline(i) => InFlight(i)
        /\ (results # <<>> \/ Gathered) => \A i \in Tasks : pc[i] = "done"

\* C6's case: concurrent mode, three invocations in flight at once, then the
\* last one launched done while the first is still waiting for its spawn.
C6_Witness ==
    /\ concurrent /\ Len(Candidates) = 3
    /\ InFlight(1) /\ pc[1] = "spawning"
    /\ InFlight(2) /\ pc[2] = "communicating"
    /\ proc[3].state = "exited" /\ pc[3] = "done" /\ isImage(ret[3])

\* The file of candidate i cannot be processed: it does not exist, it may
\* not be read, or its content is not an image.
BadInput(i) == ~exists(Candidates[i]) \/ LoadFails(i)

\* C7: the batch never throws for a bad input file.  A target whose file
\* does not exist, is unreadable or is not an image never raises, and when
\* such files are all that is wrong with the batch (the engine is installed,
\* nothing is to be saved), spherify_all does not raise in either mode and
\* ends with every bad target absent and every other target present.
C7_BadInputNeverRaises ==
    /\ \A i \in Tasks : BadInput(i) => pc[i] # "raised"
    /\ (julia_binary = <<"julia">> /\ save_dir = None) =>
          /\ hpc # "raised"
          /\ Gathered =>
                \A i \in Tasks :
                    /\ BadInput(i) => results[i] = None /\ proc[i].state = "none"
                    /\ ~BadInput(i) => proc[i].state = "exited"
                    /\ CleanRun(i) => isImage(results[i])

\* C8: when the engine executable cannot be launched, concurrent mode
\* confines the failure to each target: no exception comes out of a launch
\* (a task raises only for a file that does not exist), every launched task
\* ends with the shell's complaint on stderr and returns None, and a batch
\* that returns holds one absent record per candidate.
C8_MissingEngineConcurrent ==
    (concurrent /\ julia_binary \notin Executables) =>
        /\ \A i \in Tasks :
              /\ pc[i] = "raised" => ~exists(Candidates[i])
              /\ proc[i].state = "exited" =>
                    /\ proc[i].stderr # <<>>
                    /\ pc[i] = "done" /\ ret[i] = None
        /\ hpc = "raised" => \E i \in Tasks : ~exists(Candidates[i])
        /\ exc \in {"", "FileNotFoundError"} \/ hpc \in {"aborted", "init_raised"}
        /\ Gathered =>
              /\ Len(results) = FileCandidateCount(input_paths)
              /\ \A k \in DOMAIN results : results[k] = None

\* C8's case: concurrent mode, the engine not installed, a batch of three
\* loadable images: three shells ran and failed, and spherify_all returned
\* three absent records.
C8_Witness ==
    /\ concurrent /\ julia_binary = <<"nojulia">>
    /\ hpc = "returned" /\ Len(results) = 3
    /\ \A i \in Tasks : proc[i].state = "exited" /\ proc[i].returncode = 127
    /\ \A k \in DOMAIN results : results[k] = None

\* The save of candidate i's result must fail: its engine run was clean, a
\* save directory is set, and PIL knows no format for the file's extension.
SaveMustFail(i) ==
    /\ CleanRun(i) /\ save_dir # None
    /\ path_name(Candidates[i]).ext \notin SaveExtensions

\* A failing save is surfaced: the target's call raises, returns no image,
\* and spherify_all never returns normally (in sequential mode it has
\* already raised; in concurrent mode gather is about to).
SaveFailureSurfaced ==
    \A i \in Tasks :
        SaveMustFail(i) =>
            /\ pc[i] = "raised" /\ ret[i] = None /\ exc # ""
            /\ ~Gathered /\ results = <<>>
            /\ ~concurrent => (hpc = "raised" /\ exc = "ValueError")
            /\ concurrent => (hpc = "raised" \/ ENABLED gather_results_raise)

\* No step removes a file from the save directory.
NoRollback == \A path \in DOMAIN disk : path \in DOMAIN disk'

\* C9: a failure while saving is surfaced to the caller of spherify_all and
\* the target is not recorded as a success, and nothing already saved for
\* other targets is rolled back: every file written stays.
C9_SaveFailureSurfacedNoRollback == []SaveFailureSurfaced /\ [][NoRollback]_vars

\* C9's case: a save failed and its ValueError left spherify_all, with the
\* file of an earlier target written before it still in the save directory.
C9_Witness ==
    /\ hpc = "raised" /\ exc = "ValueError"
    /\ \E i, j \in Tasks :
          /\ j < i /\ SaveMustFail(i) /\ pc[i] = "raised"
          /\ pc[j] = "done" /\ SavedAs(j) \in DOMAIN disk /\ disk[SavedAs(j)] = ret[j]

\* __init__ asked for confirmation.
Asked == confirmed # NotAsked

\* No target has been touched: nothing loaded, no engine invoked, nothing
\* saved, nothing displayed.
NothingProcessed ==
    /\ \A i \in Tasks : pc[i] = "pending" /\ proc[i].state = "none" /\ stage[i] = <<>>
    /\ results = <<>> /\ disk = <<>> /\ shown = <<>>

\* The answers that confirm: what strtobool reads as true.
Confirms(answer) == lower(answer) \in {"y", "yes", "t", "true", "on", "1"}

\* C10: with display off and no save directory, confirmation is asked for
\* before any processing; if the user does not confirm, Handler construction
\* raises AbortExecution and nothing is ever loaded, invoked, saved or
\* displayed; in every other configuration no confirmation is asked for.
C10_ConfirmOrAbort ==
    /\ hpc = "main" => ~Asked /\ NothingProcessed
    /\ hpc # "main" => (Asked <=> (~display /\ save_dir = None))
    /\ (Asked /\ ~Confirms(confirmed)) =>
          /\ hpc = "aborted" /\ exc = "AbortExecution"
          /\ NothingProcessed

\* What C10 keeps on the code: without a confirming answer nothing is ever
\* processed, whichever exception ends the construction.
C10_NoProcessingUnconfirmed ==
    /\ hpc = "main" => ~Asked /\ NothingProcessed
    /\ hpc # "main" => (Asked <=> (~display /\ save_dir = None))
    /\ (Asked /\ ~Confirms(confirmed)) =>
          /\ hpc \in {"aborted", "init_raised"}
          /\ hpc = "aborted" <=> exc = "AbortExecution"
          /\ NothingProcessed

\* How often the value v occurs in the sequence s.
Occurrences(s, v) == Cardinality({k \in DOMAIN s : s[k] = v})

\* Some target is still being loaded, invoked, reconstructed or saved.
Processing ==
    \E i \in Tasks : pc[i] \in {"spawning", "communicating"} \/ proc[i].state = "running"

\* C11: with display on, every present image of the results list is handed
\* to the viewer exactly once, and only after the whole batch has been
\* processed (no viewer call while a target is still in its pipeline or
\* before the gather step returned); absent records are never displayed, and
\* with display off nothing is ever handed to the viewer.
C11_DisplayAfterBatch ==
    /\ ~display => shown = <<>>
    /\ hpc # "returned" => shown = <<>>
    /\ shown # <<>> => (~Processing /\ \A i \in Tasks : pc[i] = "done")
    /\ \A k \in DOMAIN shown : isImage(shown[k])
    /\ (hpc = "returned" /\ display) =>
          \A k \in DOMAIN results :
              isImage(results[k]) =>
                  Occurrences(shown, results[k]) = Occurrences(results, results[k])

\* C11's case: a concurrent batch returned with display on; two images were
\* shown and the absent record between them was not.
C11_Witness ==
    /\ hpc = "returned" /\ display /\ concurrent
    /\ Len(results) = 3 /\ isImage(results[1]) /\ results[2] = None /\ isImage(results[3])
    /\ shown = <<results[1], results[3]>>

\* The call of candidate i has returned an image with a save directory set:
\* its save_image call has written the image.
HasSaved(i) == save_dir # None /\ pc[i] = "done" /\ isImage(ret[i])

\* Candidates i and j have the same file name, so the same save path.
SameName(i, j) == path_name(Candidates[i]) = path_name(Candidates[j])

\* Every saved result is at <save_dir>/<prefix><original file name>, nothing
\* else is in the save directory, and a path that several targets were saved
\* to holds the result of one of them: in sequential mode that of the last
\* of them in input order.
SavedWhereNamed ==
    /\ save_dir = None => disk = <<>>
    /\ save_dir # None =>
          /\ \A i \in Tasks :
                HasSaved(i) =>
                    /\ SavedAs(i) = <<Name("out", ""),
                                      Name("sph_" \o path_name(Candidates[i]).stem,
                                           path_name(Candidates[i]).ext)>>
                    /\ SavedAs(i) \in DOMAIN disk
                    /\ \E j \in Tasks :
                          HasSaved(j) /\ SameName(i, j) /\ disk[SavedAs(i)] = ret[j]
                    /\ ~concurrent =>
                          \A j \in Tasks :
                              (HasSaved(j) /\ SameName(i, j) /\ j >= i
                               /\ \A k \in Tasks : (HasSaved(k) /\ SameName(i, k)) => k <= j)
                                  => disk[SavedAs(i)] = ret[j]
          /\ \A path \in DOMAIN disk : \E i \in Tasks : HasSaved(i) /\ path = SavedAs(i)

\* The step in which a target saves leaves that target's result at its path,
\* whatever was there before.
LastWriteWins ==
    \A i \in Tasks :
        (~HasSaved(i) /\ HasSaved(i)') => disk'[SavedAs(i)] = ret'[i]

\* C12: with a save directory set, each present result is written to
\* <save_dir>/<prefix><original file name>; targets with the same file name
\* share that path and are not told apart, so the file holds the result of
\* whichever of them saved last: in sequential mode the later one in input
\* order.
C12_SavePathLastWriteWins == []SavedWhereNamed /\ [][LastWriteWins]_vars

\* C12's case: a concurrent batch returned in which two targets have the same
\* file name and the earlier one of the input order saved last: the file
\* holds its result, not that of the later target.
C12_Witness ==
    /\ hpc = "returned" /\ concurrent /\ save_dir # None
    /\ \E i, j \in Tasks :
          /\ i < j /\ SameName(i, j) /\ HasSaved(i) /\ HasSaved(j)
          /\ ret[i] # ret[j]
          /\ disk[SavedAs(i)] = ret[i]
          /\ Cardinality(DOMAIN disk) < Cardinality({k \in Tasks : HasSaved(k)})

\* The same collision in sequential mode: the file holds the later target's
\* result.
C12_SequentialCollision ==
    /\ hpc = "returned" /\ ~concurrent /\ save_dir # None
    /\ \E i, j \in Tasks :
          /\ i < j /\ SameName(i, j) /\ HasSaved(i) /\ HasSaved(j)
          /\ ret[i] # ret[j]
          /\ disk[SavedAs(i)] = ret[j]

\* Where candidate path c comes from: the index of the input path that is c
\* or is the directory holding c, and c's index among that directory's entries
\* (0 for an input that is c itself); <<0, 0>> when it comes from no input.
Origin(c) ==
    IF \E k \in DOMAIN input_paths : input_paths[k] = c /\ ~is_dir(c)
    THEN <<CHOOSE k \in DOMAIN input_paths : input_paths[k] = c, 0>>
    ELSE IF \E k \in DOMAIN input_paths :
               is_dir(input_paths[k])
               /\ \E e \in DOMAIN iterdir(input_paths[k]) : iterdir(input_paths[k])[e] = c
    THEN LET k == CHOOSE k \in DOMAIN input_paths :
                     is_dir(input_paths[k])
                     /\ \E e \in DOMAIN iterdir(input_paths[k]) : iterdir(input_paths[k])[e] = c
         IN  <<k, CHOOSE e \in DOMAIN iterdir(input_paths[k]) : iterdir(input_paths[k])[e] = c>>
    ELSE <<0, 0>>

\* Origin a comes before origin b: an earlier input, or the same directory
\* input and an earlier entry.
Before(a, b) == a[1] < b[1] \/ (a[1] = b[1] /\ a[2] < b[2])

\* C13: the candidates are a flat ordered list: each is a non-directory that
\* is an input path itself or a direct entry of a directory input (nothing
\* from inside a sub-directory), every such file is a candidate exactly once,
\* in the order of the inputs and of the directory entries; a sub-directory
\* raises nothing; the directory "e", one file and one sub-directory, gives
\* exactly one candidate and, when the batch returns, exactly one record.
C13_FlatExpansion ==
    /\ \A i \in Tasks : ~is_dir(Candidates[i]) /\ Origin(Candidates[i]) # <<0, 0>>
    /\ \A i, j \in Tasks : i < j => Before(Origin(Candidates[i]), Origin(Candidates[j]))
    /\ Len(Candidates) = FileCandidateCount(input_paths)
    /\ DOMAIN pc = Tasks /\ DOMAIN ret = Tasks
    /\ (exc # "" /\ hpc \notin {"aborted", "init_raised"}) =>
          \E i \in Tasks : pc[i] = "raised" /\ ~is_dir(Candidates[i])
    /\ input_paths = <<"e">> =>
          /\ Candidates = <<"e/x.dat">>
          /\ Gathered => Len(results) = 1
          /\ (save_dir = None /\ julia_binary = <<"julia">> /\ hpc = "returned")
                => results = <<imgX>>

\* C13's case: the batch of the directory "e" (one file, one sub-directory
\* with a file in it) has returned, with one record.
C13_Witness ==
    /\ input_paths = <<"e">> /\ hpc = "returned"
    /\ Len(FileSystem["e"].entries) = 2
    /\ \E k \in 1..2 : is_dir(FileSystem["e"].entries[k])
                         /\ FileSystem[FileSystem["e"].entries[k]].entries # <<>>
    /\ Len(results) = 1 /\ isImage(results[1])

\* Candidate i loads and its engine run writes nothing to stderr: what the
\* blocking pipeline computes for it up to the engine's output.
LoadsAndRunsClean(i) ==
    LET l == load_image(Candidates[i])
    IN  /\ l.raised = "" /\ isImage(l.value)
        /\ ProcessOutput(get_julia_command_args(l.value), tobytes(l.value)).stderr = <<>>

\* spherify_all has returned, every task is in a final state with a record,
\* and the present records are as many as the targets that loaded and ran
\* with empty stderr.
Completed ==
    /\ hpc = "returned"
    /\ \A i \in Tasks : pc[i] = "done"
    /\ Len(results) = Len(Candidates)
    /\ Cardinality({k \in DOMAIN results : isImage(results[k])})
          = Cardinality({i \in Tasks : LoadsAndRunsClean(i)})

\* C14: the batch always completes.  Once the Handler is constructed, and
\* given that every engine process exits, spherify_all eventually returns
\* with every task in a final state and as many present records as targets
\* that loaded and ran with empty stderr; no task is ever cancelled, and none
\* is left pending for good.
C14_BatchAlwaysCompletes ==
    /\ (hpc = "constructed") ~> Completed
    /\ [](\A i \in Tasks : pc[i] # "cancelled")

\* The exceptions that leave a call: a file that does not exist, an engine
\* that the blocking path cannot execute, a save that fails.
CanRaise ==
    \E i \in Tasks :
        \/ ~exists(Candidates[i])
        \/ ~concurrent /\ julia_binary \notin Executables
        \/ save_dir # None /\ path_name(Candidates[i]).ext \notin SaveExtensions

\* What C14 keeps on the code: a batch always ends, by returning or by an
\* exception; it completes when no call can raise and, in concurrent mode,
\* the command line survives the shell.
C14_EndsAndCompletesUnlessRaised ==
    /\ (hpc = "constructed") ~> (hpc \in {"returned", "raised"})
    /\ (hpc = "constructed" /\ ~CanRaise /\ (concurrent => Len(julia_binary) = 1))
          ~> Completed
    /\ [](hpc = "raised" => CanRaise)

\* The raster stored in the file of candidate i.
Input(i) == FileSystem[Candidates[i]].img

\* C15: the results list is in input order and results[i] comes from
\* candidate i alone: in both modes and whatever the order in which the
\* concurrent tasks finish, a present results[i] is the image rebuilt from the
\* output of candidate i's own engine run, which was fed candidate i's bytes;
\* the stubs echo, so it is byte-identical to input i.  With the identity
\* stub "julia-echo" the batch a.png, b.png, c.png never raises and returns
\* three present records, the i-th identical to the i-th input.
C15_IdentityInOrder ==
    /\ Gathered =>
          /\ Len(results) = Len(Candidates)
          /\ \A i \in Tasks :
                isImage(results[i]) =>
                    /\ proc[i].state = "exited"
                    /\ proc[i].stdin = Input(i).data
                    /\ results[i] = Image(Input(i).w, Input(i).h, proc[i].stdout)
                    /\ results[i] = Input(i)
    /\ (input_paths = <<"a.png", "b.png", "c.png">> /\ julia_binary = <<"julia-echo">>) =>
          /\ hpc # "raised" /\ \A i \in Tasks : pc[i] \notin {"raised", "cancelled"}
          /\ \A i \in Tasks : pc[i] = "done" => ret[i] = Input(i)
          /\ Gathered => results = <<imgA, imgB, imgC>>

\* C15's case: the concurrent batch a.png, b.png, c.png with the identity
\* stub has returned its three records.
C15_Witness ==
    /\ input_paths = <<"a.png", "b.png", "c.png">> /\ julia_binary = <<"julia-echo">>
    /\ concurrent /\ hpc = "returned"
    /\ Len(results) = 3 /\ \A k \in 1..3 : isImage(results[k])
    /\ results[1].data = <<10, 11, 12, 13>> /\ results[3].data = <<30, 31, 32, 33, 34, 35, 36, 37>>

\* The same batch while it runs: the third task has finished before the
\* first has written its input.
C15_OutOfOrderCompletion ==
    /\ input_paths = <<"a.png", "b.png", "c.png">> /\ julia_binary = <<"julia-echo">>
    /\ concurrent /\ pc = <<"spawning", "communicating", "done">>

\* s is an initial part of t.
IsPrefix(s, t) == Len(s) <= Len(t) /\ SubSeq(t, 1, Len(s)) = s

\* The complete ways through the pipeline: processed to the end (with the
\* save exactly when a save directory is set), skipped by the engine step,
\* skipped by the load.
CompletePaths ==
    { IF save_dir = None
      THEN <<"Loaded", "EngineInvoked", "Reconstructed", "Done">>
      ELSE <<"Loaded", "EngineInvoked", "Reconstructed", "Saved", "Done">>,
      <<"Loaded", "EngineInvoked", "Skipped">>,
      <<"Skipped">> }

\* Every target is somewhere on one of the complete paths, and at its end
\* once its call has returned; a skipped target was neither reconstructed
\* nor saved, and a target on the engine's path has a process.
OnPath ==
    \A i \in Tasks :
        /\ \E path \in CompletePaths : IsPrefix(stage[i], path)
        /\ pc[i] = "pending" => stage[i] = <<>>
        /\ stage[i] = <<>> => pc[i] \in {"pending", "raised"}
        /\ pc[i] = "done" <=> stage[i] \in CompletePaths
        /\ (stage[i] # <<>> /\ stage[i][Len(stage[i])] = "Skipped") =>
              /\ ret[i] = None
              /\ \A k \in DOMAIN stage[i] : stage[i][k] \notin {"Reconstructed", "Saved"}
        /\ (\E k \in DOMAIN stage[i] : stage[i][k] = "EngineInvoked")
              <=> proc[i].state # "none"
        /\ (\E k \in DOMAIN stage[i] : stage[i][k] = "Reconstructed")
              => (proc[i].state = "exited" /\ proc[i].stderr = <<>>)

\* A step only moves a target forward: its stages so far stay as they are.
OnlyForward == \A i \in Tasks : IsPrefix(stage[i], stage'[i])

\* C16: each target moves only along Pending -> Loaded -> EngineInvoked ->
\* Reconstructed -> (Saved) -> Done, or to Skipped from a failed load or a
\* failed engine step: the steps of one task come in that order, none twice,
\* none left out, Saved exactly when a save directory is set, and a skipped
\* target is never reconstructed or saved.
C16_PipelineOrder == []OnPath /\ [][OnlyForward]_vars

\* C16's case: a batch with a save directory returned with one target that
\* went the whole way, one skipped by its engine step and one skipped by its
\* load.
C16_Witness ==
    /\ hpc = "returned" /\ save_dir # None
    /\ \E i, j, k \in Tasks :
          /\ stage[i] = <<"Loaded", "EngineInvoked", "Reconstructed", "Saved", "Done">>
          /\ stage[j] = <<"Loaded", "EngineInvoked", "Skipped">>
          /\ stage[k] = <<"Skipped">>

\* The argument vector the engine contract asks for, for candidate i: binary,
\* script, '<w>,<h>' of the loaded image, centre, radius, density,
\* '<snap_w>,<snap_h>'.
ContractArgv(i) ==
    << julia_binary,
       <<"spherify.jl">>,
       <<IntStr(Input(i).w) \o "," \o IntStr(Input(i).h)>>,
       <<"0.0,0.0,0.0">>,
       <<"1.0">>,
       <<"1">>,
       <<"500,500">> >>

\* The process of candidate i was given the contract's argument vector, and
\* by the time it has exited the image's bytes on stdin.
ContractKept(i) ==
    proc[i].state # "none" =>
        /\ proc[i].argv = ContractArgv(i)
        /\ proc[i].state = "exited" => proc[i].stdin = Input(i).data

\* C17: the engine sees the same contract in both modes: for the same image
\* and configuration the process gets the argument vector binary, script,
\* '<w>,<h>', '<cx>,<cy>,<cz>', radius, density, '<snap_w>,<snap_h>' (w and
\* h those of the loaded image) and the image's bytes on stdin, in
\* concurrent mode as in sequential mode.
C17_SameEngineContract == \A i \in Tasks : ContractKept(i)

\* The sequential mode keeps the contract for every configuration.
C17_SequentialContract == ~concurrent => \A i \in Tasks : ContractKept(i)

\* The concurrent mode keeps it when no argument holds a blank.
C17_ConcurrentContractWithoutBlanks ==
    (concurrent /\ Len(julia_binary) = 1) => \A i \in Tasks : ContractKept(i)

\* The image x has the width and height of candidate i's source image, and
\* one pixel's bytes for each of its pixels.
HasSourceSize(x, i) ==
    /\ x.w = Input(i).w /\ x.h = Input(i).h
    /\ Len(x.data) = Input(i).w * Input(i).h * 4

Invocations(i) == Cardinality({k \in DOMAIN stage[i] : stage[i][k] = "EngineInvoked"})

\* The file of candidate i loads: it exists, may be read and is an image.
Loads(i) == exists(Candidates[i]) /\ ~LoadFails(i)

\* At most one invocation per target and none for a target that did not
\* load; in a batch that returned, exactly one for each target that loaded,
\* with one process that ran to its end.
InvokedOnce ==
    \A i \in Tasks :
        /\ Invocations(i) <= 1
        /\ Invocations(i) = 1 <=> proc[i].state # "none"
        /\ ~Loads(i) => (Invocations(i) = 0 /\ proc[i].state = "none")
        /\ Gathered => (Loads(i) <=> (Invocations(i) = 1 /\ proc[i].state = "exited"))

\* No step invokes again: a process once started is not replaced or started
\* anew, a process that is over and a call that has ended stay as they are,
\* and the step that ends one target's call, in failure as in success,
\* touches no other target.
NoRetry ==
    \A i \in Tasks :
        /\ proc[i].state # "none" =>
              /\ proc'[i].state # "none" /\ proc'[i].argv = proc[i].argv
              /\ Invocations(i)' = Invocations(i)
        /\ proc[i].state \in {"exited", "killed"} => proc'[i] = proc[i]
        /\ pc[i] \in {"done", "raised", "cancelled"} =>
              (pc'[i] = pc[i] /\ ret'[i] = ret[i] /\ stage'[i] = stage[i])
        /\ (pc[i] # "done" /\ pc'[i] = "done") =>
              \A j \in Tasks \ {i} :
                  /\ pc'[j] = pc[j] /\ proc'[j] = proc[j]
                  /\ ret'[j] = ret[j] /\ stage'[j] = stage[j]

\* C19: no retries.  Over a batch the engine is invoked exactly once for
\* every target that loaded and never for one that did not; a target whose
\* invocation failed is not invoked again, and its failure changes nothing
\* for the other targets.
C19_NoRetry == []InvokedOnce /\ [][NoRetry]_vars

\* C19's case: a batch returned in which one target's only invocation
\* failed (stderr), another was not invoked because it did not load, and a
\* third was invoked once and is present.
C19_Witness ==
    /\ hpc = "returned"
    /\ \E i, j, k \in Tasks :
          /\ Invocations(i) = 1 /\ proc[i].stderr # <<>> /\ results[i] = None
          /\ ~Loads(j) /\ Invocations(j) = 0 /\ results[j] = None
          /\ Invocations(k) = 1 /\ isImage(results[k])

\* The engine run of candidate i is over, wrote nothing to stderr and exited
\* with a non-zero status.
NonZeroCleanExit(i) == CleanRun(i) /\ proc[i].returncode # 0

\* C20: the exit status of the engine is not looked at.  In the blocking
\* path a run that exits non-zero with empty stderr raises nothing and its
\* stdout is made into a present record, as for a run that exits with 0; the
\* concurrent path gives the same record for that run.
C20_ExitStatusIgnored ==
    \A i \in Tasks :
        (NonZeroCleanExit(i) /\ ~SaveMustFail(i)) =>
            /\ pc[i] = "done"
            /\ ret[i] = Image(Input(i).w, Input(i).h, proc[i].stdout)
            /\ stage[i][Len(stage[i])] = "Done"
            /\ Gathered => results[i] = ret[i]
            /\ ~concurrent => exc \in {"", "FileNotFoundError", "ValueError"}

\* C20's case: a sequential batch returned; the engine of one target exited
\* with status 3 and empty stderr, and the target is present, next to one
\* whose engine exited with 0.
C20_Witness ==
    /\ ~concurrent /\ hpc = "returned"
    /\ \E i, j \in Tasks :
          /\ NonZeroCleanExit(i) /\ proc[i].returncode = 3
          /\ isImage(results[i]) /\ results[i].data = proc[i].stdout
          /\ CleanRun(j) /\ proc[j].returncode = 0 /\ isImage(results[j])

\* The last stage candidate i has reached ("" before the first).
LastStage(i) == IF stage[i] = <<>> THEN "" ELSE stage[i][Len(stage[i])]

\* Between the steps of the event loop a concurrent task that has begun and
\* not ended waits at the spawn (command built, process requested, nothing
\* written) or at the exchange (input handed over, output awaited); no task
\* is ever left with its image loaded and no command built, or with its
\* output reconstructed and not saved.
AtSuspensionPoint ==
    concurrent =>
        \A i \in Tasks :
            /\ pc[i] = "spawning" =>
                  /\ stage[i] = <<"Loaded", "EngineInvoked">>
                  /\ proc[i].state = "running" /\ proc[i].stdin = <<>>
            /\ pc[i] = "communicating" =>
                  /\ stage[i] = <<"Loaded", "EngineInvoked">>
                  /\ proc[i].state = "running" /\ proc[i].stdin = Input(i).data
            /\ pc[i] = "pending" => LastStage(i) = ""
            /\ pc[i] = "done" => LastStage(i) \in {"Done", "Skipped"}
            /\ LastStage(i) \notin {"Loaded", "Saved"}
            /\ LastStage(i) = "Reconstructed" => (pc[i] = "raised" /\ SaveMustFail(i))

\* The tasks a step moves.
Moved == {i \in Tasks : pc'[i] # pc[i] \/ stage'[i] # stage[i] \/ ret'[i] # ret[i]}

\* A step of the concurrent batch runs one task from one suspension point to
\* the next (only the cancellation after a raise touches several); a step
\* that writes a file is the step of one task, from its exchange to its end,
\* and changes no path but that task's.
OneTaskPerStep ==
    concurrent =>
        /\ hpc' # "raised" => Cardinality(Moved) <= 1
        /\ disk' # disk =>
              \E i \in Tasks :
                  /\ Moved = {i}
                  /\ pc[i] = "communicating" /\ pc'[i] = "done"
                  /\ stage'[i] = <<"Loaded", "EngineInvoked", "Reconstructed", "Saved", "Done">>
                  /\ DOMAIN disk' = DOMAIN disk \cup {SavedAs(i)}
                  /\ disk'[SavedAs(i)] = ret'[i]
                  /\ \A path \in DOMAIN disk : path # SavedAs(i) => disk'[path] = disk[path]

\* C21: in concurrent mode a task is suspended in favour of another only at
\* the process spawn and at the exchange with the engine: loading and
\* converting the image, and reconstructing and saving the result, run
\* without a step of another task in between, so no two tasks write a save
\* path at overlapping times.
C21_SuspensionPoints == []AtSuspensionPoint /\ [][OneTaskPerStep]_vars

\* C21's case: two concurrent tasks with the same save path; one waits at
\* its spawn and the other at its exchange while a third has saved its
\* result.
C21_Witness ==
    /\ concurrent /\ save_dir # None /\ hpc = "gather"
    /\ \E i, j, k \in Tasks :
          /\ i # j /\ SameName(i, j)
          /\ pc[i] = "spawning" /\ pc[j] = "communicating"
          /\ pc[k] = "done" /\ LastStage(k) = "Done" /\ SavedAs(k) \in DOMAIN disk

\* Later in such a batch: one of two tasks with the same save path has
\* written the file and the other still waits for its engine.
C21_OneWriterAtATime ==
    /\ concurrent /\ save_dir # None /\ hpc = "gather"
    /\ \E i, j \in Tasks :
          /\ i # j /\ SameName(i, j)
          /\ pc[i] = "done" /\ HasSaved(i)
          /\ SavedAs(i) \in DOMAIN disk /\ disk[SavedAs(i)] = ret[i]
          /\ pc[j] = "communicating"

\* The targets whose call ran save_image to its end.
SaveOps == {i \in Tasks : Occurrences(stage[i], "Saved") > 0}

\* The present records of the results list.
PresentRecords == {k \in DOMAIN results : isImage(results[k])}

\* Candidate i was skipped at load, or its engine wrote to stderr.
AbsentByLoadOrStderr(i) ==
    \/ LoadFails(i) /\ pc[i] = "done"
    \/ proc[i].state = "exited" /\ proc[i].stderr # <<>>

\* Saves and present records go together: save_image ran, once, exactly for
\* the targets whose call returned an image (none without a save
\* directory); every file of the save directory was written by such a
\* target and holds such a target's result; a target skipped at load or
\* with output on stderr ran no save, and no file is at its save path
\* unless a target of the same file name wrote it; a batch that completes
\* has as many saves as present records, target by target.
SavedIffPresent ==
    /\ save_dir = None => (disk = <<>> /\ SaveOps = {})
    /\ save_dir # None =>
          /\ \A i \in Tasks :
                /\ i \in SaveOps <=> (pc[i] = "done" /\ isImage(ret[i]))
                /\ i \in SaveOps =>
                      /\ Occurrences(stage[i], "Saved") = 1
                      /\ CleanRun(i) /\ ~LoadFails(i)
                      /\ SavedAs(i) \in DOMAIN disk
                /\ AbsentByLoadOrStderr(i) =>
                      /\ i \notin SaveOps
                      /\ ret[i] = None
                      /\ SavedAs(i) \in DOMAIN disk =>
                            \E j \in SaveOps : j # i /\ SameName(i, j)
          /\ \A path \in DOMAIN disk :
                /\ \E i \in SaveOps : SavedAs(i) = path
                /\ \E j \in SaveOps : SavedAs(j) = path /\ disk[path] = ret[j]
          /\ Gathered =>
                /\ Cardinality(SaveOps) = Cardinality(PresentRecords)
                /\ SaveOps = PresentRecords

\* The save directory changes only in the step in which a target's save
\* runs, and every save writes that target's file.
WriteIsSave ==
    /\ disk' # disk => \E i \in SaveOps' \ SaveOps :
                           /\ SavedAs(i) \in DOMAIN disk'
                           /\ disk'[SavedAs(i)] = ret'[i]
    /\ \A i \in SaveOps' \ SaveOps :
          SavedAs(i) \in DOMAIN disk' /\ disk'[SavedAs(i)] = ret'[i]
    /\ SaveOps \subseteq SaveOps'

\* C22: a file is written to the save directory only for a target whose
\* record is present: with a save directory, a batch that completes ran as
\* many saves as it has present records, and a target skipped at load or
\* whose engine wrote to stderr has no output file.
C22_SavedIffPresent == []SavedIffPresent /\ [][WriteIsSave]_vars

\* C22's case: a completed batch with a save directory in which one target
\* was skipped at load, one had engine output on stderr and one was saved;
\* neither of the first two has a file at its save path.
C22_Witness ==
    /\ Gathered /\ save_dir # None
    /\ \E i, j, k \in Tasks :
          /\ LoadFails(i) /\ results[i] = None /\ SavedAs(i) \notin DOMAIN disk
          /\ proc[j].state = "exited" /\ proc[j].stderr # <<>>
          /\ results[j] = None /\ SavedAs(j) \notin DOMAIN disk
          /\ isImage(results[k]) /\ disk[SavedAs(k)] = results[k]
    /\ Cardinality(SaveOps) = Cardinality(PresentRecords)
    /\ Cardinality(SaveOps) < Len(results)

\* Two present records of the same file name: two saves, one file.
C22_TwoSavesOneFile ==
    /\ Gathered /\ save_dir # None
    /\ \E i, j \in SaveOps : i # j /\ SameName(i, j)
    /\ Cardinality(SaveOps) = Cardinality(PresentRecords)
    /\ Cardinality(DOMAIN disk) < Cardinality(SaveOps)

\* An exception has left a task's call.
Escaped == hpc = "raised" \/ \E i \in Tasks : pc[i] = "raised"

\* Until the gather step has returned the results list is empty and nothing
\* is displayed, however many calls have returned; once it has, the list
\* holds every call's value; after an exception left a call the gather step
\* never returns, so the list stays empty and nothing is displayed.
EmptyUntilGathered ==
    /\ ~Gathered => (results = <<>> /\ shown = <<>>)
    /\ Gathered =>
          /\ \A i \in Tasks : pc[i] = "done"
          /\ results = [i \in Tasks |-> ret[i]]
    /\ Escaped => (~Gathered /\ results = <<>> /\ shown = <<>>)

\* The list is assigned once, whole, by the step in which the gather step
\* returns; no step of a batch with an escaped exception assigns or displays
\* anything, and a batch that raised has ended.
PublishedAtOnce ==
    /\ results' # results =>
          /\ results = <<>> /\ hpc = "gather" /\ hpc' = "gathered"
          /\ \A i \in Tasks : pc[i] = "done"
          /\ results' = [i \in Tasks |-> ret[i]]
          /\ Len(results') = Len(Candidates)
    /\ (hpc = "gather" /\ hpc' = "gathered") => results' = [i \in Tasks |-> ret[i]]
    /\ Escaped => (Escaped' /\ results' = <<>> /\ shown' = <<>>)
    /\ hpc = "raised" => hpc' = "raised"

\* C23: the results list is published all at once: it is empty from
\* construction until the whole gather step returns, and if an exception
\* leaves any task, in either mode, it stays empty, so no image of the batch
\* is displayed although results of earlier targets may be on disk.
C23_PublishedAtOnce == []EmptyUntilGathered /\ [][PublishedAtOnce]_vars

\* C23's case, concurrent mode: display is on, a target's result is saved
\* on disk, an exception of another task has ended the batch; the results
\* list is empty and nothing was displayed.
C23_Witness ==
    /\ concurrent /\ display /\ hpc = "raised"
    /\ \E i, j \in Tasks :
          /\ pc[j] = "raised"
          /\ HasSaved(i) /\ SavedAs(i) \in DOMAIN disk /\ disk[SavedAs(i)] = ret[i]
    /\ results = <<>> /\ shown = <<>>

\* The same in sequential mode: the earlier target is saved, a later one
\* raised.
C23_SequentialRaise ==
    /\ ~concurrent /\ display /\ hpc = "raised"
    /\ \E i, j \in Tasks :
          /\ i < j /\ pc[j] = "raised"
          /\ HasSaved(i) /\ SavedAs(i) \in DOMAIN disk /\ disk[SavedAs(i)] = ret[i]
    /\ results = <<>> /\ shown = <<>>

\* Calls have returned images and the list is still empty: the gather step
\* has not returned yet.
C23_ReturnedNotPublished ==
    /\ hpc = "gather" /\ results = <<>>
    /\ \E i, j \in Tasks : i # j /\ pc[i] = "done" /\ isImage(ret[i]) /\ pc[j] # "done"

=============================================================================
